---- MODULE Spec2Model ----
(***************************************************************************)
(* Kisaan Mitra: the App component's orchestration of an advice request    *)
(* (handleGetAdvice / handleCancel), of narration playback                 *)
(* (handlePlayAudio / handleStopAudio) and of the live voice session       *)
(* (startRecording / stopRecording), as state machines.                    *)
(*                                                                         *)
(* JavaScript runs one macrotask at a time and drains the microtask queue  *)
(* before the next one, so an action is one macrotask (a click, a timer,   *)
(* the settling of an external call, a transport callback) together with   *)
(* every promise continuation it makes runnable.                           *)
(***************************************************************************)
EXTENDS Integers, Sequences, FiniteSets, TLC

\* ------------------------------------------------------------------ bounds
MaxReq == 2
MaxPlay == 3
MaxSess == 2
MaxStop == 2
MaxSources == 2
MaxTranscript == 2
MaxChunks == 3
MaxTime == 30
MaxLate == 1
MaxMsg == 3
MaxDays == 3

MaxFrames == 2

Reqs == 1..MaxReq
Plays == 1..MaxPlay
Sessions == 1..MaxSess

Null == 0

VARIABLES
  \* advice request (handleGetAdvice / handleCancel)
  location, isLoading, weatherInfo, soilInfo, marketInfo, finalAdvice, error,
  extremeWeatherAlert, agentStatuses, abortControllerRef,
  aborted,      \* controller.signal.aborted of each request's AbortController
  pipe,         \* the await each pipeline closure of a request is suspended at
  timers,       \* the pending setTimeout timers of sleep(ms), in the order they were set
  hpc,          \* where handleGetAdvice itself is: Promise.all, getFinalAdvice, or how it ended
  origin,       \* who called handleGetAdvice: the location form or a tool call
  callSess,     \* the session whose onmessage handler made that call (Null for the form)
  toolResp,     \* the sendToolResponse payloads sent for the tool call that started a request
  held,         \* what else the message of that tool call carries: its handler gets to it after the await
  nInv,         \* number of handleGetAdvice invocations so far
  \* narration playback (handlePlayAudio / handleStopAudio)
  playbackStatuses, activePlaybackSourceRef,
  ppc,          \* the await each handlePlayAudio invocation is suspended at
  pagent,       \* the agentType argument of each handlePlayAudio invocation
  src,          \* each invocation's AudioBufferSourceNode: none, playing, stopped, ended
  onended,      \* whether that source's onended handler is attached
  replaced,     \* the source each invocation found attached, and stopped, on entry
  nPlay,
  \* live voice session (startRecording / stopRecording)
  isRecording, isAssistantSpeaking, conversation, sessionPromiseRef,
  scriptProcessorRef,  \* and mediaStreamSourceRef: the session whose capture nodes they hold
  sess,         \* each startRecording invocation's session (the promise ai.live.connect returned)
  stream,       \* each invocation's microphone MediaStream
  capture,      \* each session's capture nodes (media stream source and script processor)
  sources,      \* size of each invocation's `sources` set of scheduled audio sources
  stopAwait,    \* number of stopRecording invocations suspended at `await sessionPromiseRef.current`, per session
  nSess,
  mounted,      \* whether the App component is mounted
  currentTime,  \* outputAudioContextRef.current.currentTime, in tenths of a second
  nextStartTime, \* each startRecording invocation's `nextStartTime`, in tenths of a second
  scheduled,    \* per invocation, the sources started: [start, duration] in scheduling order
  nMsg,         \* number of messages with a transcription or audio delivered to onmessage so far
  frames        \* per session, the number of session.sendRealtimeInput calls made on it

adviceVars == <<location, isLoading, weatherInfo, soilInfo, marketInfo, finalAdvice, error,
                extremeWeatherAlert, agentStatuses, abortControllerRef, aborted, pipe, timers,
                hpc, origin, callSess, toolResp, held, nInv>>
playVars == <<activePlaybackSourceRef, ppc, pagent, src, onended, replaced, nPlay>>
schedVars == <<currentTime, nextStartTime, scheduled, nMsg, frames>>
sessRest == <<isRecording, sessionPromiseRef, scriptProcessorRef,
              sess, stream, capture, stopAwait, nSess, mounted>>
sessVars == <<sessRest, sources, schedVars>>
voiceVars == <<isAssistantSpeaking, sessVars>>
vars == <<adviceVars, playbackStatuses, playVars, conversation, voiceVars>>

\* What the rest of an onmessage handler writes once its tool call has settled.
liveOut == <<toolResp, isAssistantSpeaking, conversation, sources, currentTime,
             nextStartTime, scheduled>>

Analyzing == 0

\* A message that carries neither a transcription nor audio.
NoContent == [who |-> "none", hasAudio |-> FALSE, dur |-> 0, msg |-> 0]

\* ------------------------------------------------------------ types.ts
AgentStatus == {"idle", "working", "done", "error"}
AgentType == {"weather", "soil", "market", "planner"}
PlaybackStatus == {"idle", "buffering", "playing", "error"}
Pipelines == {"weather", "soil", "market"}

AllStatus(v) ==
  [weather |-> [main |-> v, subAgents |-> [forecast |-> v, alerts |-> v]],
   soil    |-> [main |-> v, subAgents |-> [nutrients |-> v, ph_moisture |-> v, type |-> v]],
   market  |-> [main |-> v, subAgents |-> [prices |-> v, export |-> v]],
   planner |-> v]

initialAgentStatuses == AllStatus("idle")

errorAgentStatuses == AllStatus("error")

initialPlaybackStatuses == [a \in AgentType |-> "idle"]

Locations == {"", "Napa Valley"}

\* ------------------------------------------------------------------ Init
Init ==
  /\ location = ""
  /\ isLoading = FALSE
  /\ weatherInfo = Null /\ soilInfo = Null /\ marketInfo = Null
  /\ finalAdvice = Null /\ error = Null /\ extremeWeatherAlert = Null
  /\ agentStatuses = initialAgentStatuses
  /\ abortControllerRef = Null
  /\ aborted = [r \in Reqs |-> FALSE]
  /\ pipe = [r \in Reqs |-> [p \in Pipelines |-> "idle"]]
  /\ timers = <<>>
  /\ hpc = [r \in Reqs |-> "idle"]
  /\ origin = [r \in Reqs |-> "none"]
  /\ callSess = [r \in Reqs |-> Null]
  /\ toolResp = [r \in Reqs |-> <<>>]
  /\ held = [r \in Reqs |-> NoContent]
  /\ nInv = 0
  /\ playbackStatuses = initialPlaybackStatuses
  /\ activePlaybackSourceRef = Null
  /\ ppc = [c \in Plays |-> "idle"]
  /\ pagent = [c \in Plays |-> "none"]
  /\ src = [c \in Plays |-> "none"]
  /\ onended = [c \in Plays |-> FALSE]
  /\ replaced = [c \in Plays |-> Null]
  /\ nPlay = 0
  /\ isRecording = FALSE
  /\ isAssistantSpeaking = FALSE
  /\ conversation = <<>>
  /\ sessionPromiseRef = Null
  /\ scriptProcessorRef = Null
  /\ sess = [s \in Sessions |-> "none"]
  /\ stream = [s \in Sessions |-> "none"]
  /\ capture = [s \in Sessions |-> "none"]
  /\ sources = [s \in Sessions |-> 0]
  /\ stopAwait = [s \in Sessions |-> 0]
  /\ nSess = 0
  /\ mounted = TRUE
  /\ currentTime = 0
  /\ nextStartTime = [s \in Sessions |-> 0]
  /\ scheduled = [s \in Sessions |-> <<>>]
  /\ nMsg = 0
  /\ frames = [s \in Sessions |-> 0]

\* =================================================== advice orchestration
\* The mutation: a resetState without setFinalAdvice(null).
resetDataKeepsAdvice ==
  /\ weatherInfo' = Null
  /\ soilInfo' = Null
  /\ marketInfo' = Null
  /\ UNCHANGED finalAdvice
  /\ error' = Null
  /\ playbackStatuses' = initialPlaybackStatuses
  /\ extremeWeatherAlert' = Null

\* resetState, apart from its setAgentStatuses(initialAgentStatuses), which
\* handleGetAdvice overwrites in the same macrotask.
resetData ==
  /\ weatherInfo' = Null
  /\ soilInfo' = Null
  /\ marketInfo' = Null
  /\ finalAdvice' = Null
  /\ error' = Null
  /\ playbackStatuses' = initialPlaybackStatuses
  /\ extremeWeatherAlert' = Null

resetState ==
  /\ resetData
  /\ agentStatuses' = initialAgentStatuses

\* controller.signal.aborted, read by the closures of request r
signalAborted(r) == aborted[r]

RECURSIVE Chunks(_)
Chunks(conv) == IF conv = <<>> THEN 0 ELSE Len(Head(conv).text) + Chunks(Tail(conv))

\* setConversation updater of a transcription: extend the last entry when it
\* has the same speaker, else append a new entry.
\* The mutation: a reducer that never extends the last entry.
TranscribedAlwaysAppends(conv, who, delta) ==
  IF who = "none" THEN conv
  ELSE Append(conv, [speaker |-> who, text |-> <<delta>>])

\* A text is the sequence of its pieces: the delta of a message is named by the
\* message's arrival number, Analyzing is the "analyzing" text of a tool call.
Transcribed(conv, who, delta) ==
  IF who = "none" THEN conv
  ELSE IF conv # <<>> /\ conv[Len(conv)].speaker = who
    THEN [conv EXCEPT ![Len(conv)].text = Append(@, delta)]
    ELSE Append(conv, [speaker |-> who, text |-> <<delta>>])

\* Durations of audio chunks, and the clock times at which messages arrive, in
\* tenths of a second.
Durations == {5, 10, 20}

ArrivalTimes == {1, 10, MaxTime}

\* The mutation: the start time ignores the playback clock.
StartAtNoClock(nst, now) == nst

\* The mutation: the start time ignores the chunks already scheduled.
StartAtNow(nst, now) == now

\* Math.max(nextStartTime, outputAudioContextRef.current.currentTime)
StartAt(nst, now) == IF nst > now THEN nst ELSE now

\* The part of onmessage below the tool-call branch, for the message m of
\* session s with the transcript at conv: the transcription, then the audio
\* chunk scheduled at the clock time of that moment, or, without audio, the
\* speaking flag cleared when no scheduled source is left.
AfterToolCall(s, conv, m, speaking) ==
  /\ conversation' = Transcribed(conv, m.who, m.msg)
  /\ IF m.hasAudio
       THEN /\ isAssistantSpeaking' = speaking
            /\ nextStartTime' =
                 [nextStartTime EXCEPT ![s] = StartAt(nextStartTime[s], currentTime) + m.dur]
            /\ scheduled' =
                 [scheduled EXCEPT ![s] =
                    Append(@, [at |-> currentTime, late |-> 0, msg |-> m.msg,
                               start |-> StartAt(nextStartTime[s], currentTime),
                               duration |-> m.dur])]
            /\ sources' = [sources EXCEPT ![s] = @ + 1]
            /\ UNCHANGED currentTime
       ELSE /\ isAssistantSpeaking' = IF sources[s] = 0 THEN FALSE ELSE speaking
            /\ UNCHANGED <<sources, currentTime, nextStartTime, scheduled>>

\* The mutation: the tool-call branch without its catch block.
ToolCallNoCatch(r, outcome) ==
  /\ toolResp' = [toolResp EXCEPT ![r] =
                    IF outcome = "advice" THEN Append(@, "summary") ELSE @]
  /\ IF outcome = "threw"
       THEN UNCHANGED <<isAssistantSpeaking, conversation, sources, currentTime,
                        nextStartTime, scheduled>>
       ELSE AfterToolCall(callSess[r], conversation, held[r], isAssistantSpeaking)

\* The rest of the onmessage handler once `await handleGetAdvice(location)` has
\* settled with `outcome`: a summary when advice came back, the apology when it
\* threw, nothing when it returned undefined; then what the message carries
\* besides the tool call.
ToolCallContinues(r, outcome) ==
  /\ toolResp' = [toolResp EXCEPT ![r] =
                    IF outcome = "advice" THEN Append(@, "summary")
                    ELSE IF outcome = "threw" THEN Append(@, "apology")
                    ELSE @]
  /\ AfterToolCall(callSess[r], conversation, held[r], isAssistantSpeaking)

\* The end of handleGetAdvice(r), and what its caller does next.
Finish(r, outcome) ==
  /\ hpc' = [hpc EXCEPT ![r] = outcome]
  /\ IF origin[r] = "tool"
       THEN ToolCallContinues(r, outcome)
       ELSE UNCHANGED liveOut

\* The mutation: a finally block without its `if (!controller.signal.aborted)`.
CatchBlockFinallyUnguarded(r, st1) ==
  IF signalAborted(r)
    THEN /\ agentStatuses' = st1
         /\ Finish(r, "undef")
         /\ isLoading' = FALSE
         /\ UNCHANGED error
    ELSE /\ error' = r
         /\ agentStatuses' = errorAgentStatuses
         /\ Finish(r, "threw")
         /\ isLoading' = FALSE

\* catch (err) { ... } finally { ... } of handleGetAdvice; st1 is agentStatuses
\* as the macrotask has left it so far.
CatchBlock(r, st1) ==
  IF signalAborted(r)
    THEN /\ agentStatuses' = st1
         /\ Finish(r, "undef")
         /\ UNCHANGED <<error, isLoading>>
    ELSE /\ error' = r
         /\ agentStatuses' = errorAgentStatuses
         /\ Finish(r, "threw")
         /\ isLoading' = FALSE

\* The mutation: the continuation of Promise.all without its
\* `if (controller.signal.aborted || !weatherResult || ...) return`.
GatheredUnchecked(r, np, st1) ==
  /\ agentStatuses' = [st1 EXCEPT !.planner = "working"]
  /\ hpc' = [hpc EXCEPT ![r] = "synth"]
  /\ UNCHANGED <<error, isLoading, liveOut>>

\* The continuation of `await Promise.all([...])` once all three have fulfilled.
Gathered(r, np, st1) ==
  IF signalAborted(r) \/ \E p \in Pipelines : np[p] = "null"
    THEN /\ agentStatuses' = st1
         /\ Finish(r, "undef")
         /\ isLoading' = IF signalAborted(r) THEN isLoading ELSE FALSE
         /\ UNCHANGED error
    ELSE /\ agentStatuses' = [st1 EXCEPT !.planner = "working"]
         /\ hpc' = [hpc EXCEPT ![r] = "synth"]
         /\ UNCHANGED <<error, isLoading, liveOut>>

\* The mutation: Promise.allSettled in place of Promise.all, the failure
\* handled once every pipeline has settled.
SettleWaitsForAll(r, np, st1, rejected) ==
  IF hpc[r] = "all" /\ (\A p \in Pipelines : np[p] \in {"data", "null", "rejected"})
       /\ (\E p \in Pipelines : np[p] = "rejected")
    THEN CatchBlock(r, st1)
  ELSE IF hpc[r] = "all" /\ \A p \in Pipelines : np[p] \in {"data", "null"}
    THEN Gathered(r, np, st1)
  ELSE /\ agentStatuses' = st1
       /\ UNCHANGED <<hpc, error, isLoading, liveOut>>

\* What a pipeline closure's step makes runnable in handleGetAdvice: Promise.all
\* rejects on the first rejection and fulfils when the last closure has returned.
Settle(r, np, st1, rejected) ==
  IF hpc[r] = "all" /\ rejected
    THEN CatchBlock(r, st1)
  ELSE IF hpc[r] = "all" /\ \A p \in Pipelines : np[p] \in {"data", "null"}
    THEN Gathered(r, np, st1)
  ELSE /\ agentStatuses' = st1
       /\ UNCHANGED <<hpc, error, isLoading, liveOut>>

pipeFrame ==
  UNCHANGED <<location, finalAdvice, abortControllerRef, aborted, origin, callSess, held, nInv,
              playbackStatuses, playVars, sessRest, nMsg, frames>>

pipeData == <<weatherInfo, soilInfo, marketInfo, extremeWeatherAlert>>

\* sleep(ms) is setTimeout(resolve, ms). A timer runs only after every timer
\* that was set before it with an equal or smaller timeout (the HTML timer
\* ordering); timers are otherwise free to elapse in any order.
SleepStart == 0
SleepSoil == 100
SleepMarket == 200
SleepPace == 300

TimerOf(r, p) == CHOOSE i \in DOMAIN timers : timers[i].r = r /\ timers[i].p = p

Due(i) == \A j \in 1..(i - 1) : timers[j].ms > timers[i].ms

Drop(i) == SubSeq(timers, 1, i - 1) \o SubSeq(timers, i + 1, Len(timers))

\* A closure resumes from the await `at` (a sleep that has elapsed, or the
\* external call that has resolved): `if (controller.signal.aborted) return null;`
\* then its writes (st1: agentStatuses after them; write: the data it stores) up
\* to its next await (or its return), `nxt`.
Resume(r, p, at, nxt, st1, write) ==
  /\ pipe[r][p] = at
  /\ at # "fetch" => Due(TimerOf(r, p))
  /\ LET rest == IF at = "fetch" THEN timers ELSE Drop(TimerOf(r, p)) IN
     IF signalAborted(r)
       THEN /\ pipe' = [pipe EXCEPT ![r][p] = "null"]
            /\ timers' = rest
            /\ UNCHANGED pipeData
            /\ Settle(r, [pipe[r] EXCEPT ![p] = "null"], agentStatuses, FALSE)
       ELSE /\ pipe' = [pipe EXCEPT ![r][p] = nxt]
            /\ timers' = IF nxt \in {"fetch", "data"} THEN rest
                         ELSE Append(rest, [r |-> r, p |-> p, ms |-> SleepPace])
            /\ write
            /\ Settle(r, [pipe[r] EXCEPT ![p] = nxt], st1, FALSE)
  /\ pipeFrame

\* The external call a closure awaits rejects: the closure's promise rejects.
Reject(r, p) ==
  /\ pipe[r][p] = "fetch"
  /\ pipe' = [pipe EXCEPT ![r][p] = "rejected"]
  /\ UNCHANGED <<pipeData, timers>>
  /\ Settle(r, [pipe[r] EXCEPT ![p] = "rejected"], agentStatuses, TRUE)
  /\ pipeFrame

\* ---- weatherPromise
WeatherStart(r) ==
  Resume(r, "weather", "sleep0", "fetch",
         [agentStatuses EXCEPT !.weather.subAgents.forecast = "working"],
         UNCHANGED pipeData)

\* WeatherFetched with the abort check after `await getWeatherData` left out.
WeatherFetchedUnchecked(r) ==
  /\ pipe[r]["weather"] = "fetch"
  /\ pipe' = [pipe EXCEPT ![r]["weather"] = "sleep1"]
  /\ timers' = Append(timers, [r |-> r, p |-> "weather", ms |-> SleepPace])
  /\ weatherInfo' = r /\ UNCHANGED <<soilInfo, marketInfo, extremeWeatherAlert>>
  /\ Settle(r, [pipe[r] EXCEPT !["weather"] = "sleep1"],
            [agentStatuses EXCEPT !.weather.subAgents.forecast = "done"], FALSE)
  /\ pipeFrame

WeatherFetched(r) ==
  Resume(r, "weather", "fetch", "sleep1",
         [agentStatuses EXCEPT !.weather.subAgents.forecast = "done"],
         weatherInfo' = r /\ UNCHANGED <<soilInfo, marketInfo, extremeWeatherAlert>>)

WeatherFetchFailed(r) == Reject(r, "weather")

WeatherAlerts(r) ==
  Resume(r, "weather", "sleep1", "sleep2",
         [agentStatuses EXCEPT !.weather.subAgents.alerts = "working"],
         extremeWeatherAlert' = r /\ UNCHANGED <<weatherInfo, soilInfo, marketInfo>>)

WeatherDone(r) ==
  Resume(r, "weather", "sleep2", "data",
         [agentStatuses EXCEPT !.weather.subAgents.alerts = "done", !.weather.main = "done"],
         UNCHANGED pipeData)

\* ---- soilPromise
SoilStart(r) ==
  Resume(r, "soil", "sleep0", "fetch",
         [agentStatuses EXCEPT !.soil.subAgents.nutrients = "working"],
         UNCHANGED pipeData)

\* SoilFetched with the abort check after `await getSoilData` left out.
SoilFetchedUnchecked(r) ==
  /\ pipe[r]["soil"] = "fetch"
  /\ pipe' = [pipe EXCEPT ![r]["soil"] = "sleep1"]
  /\ timers' = Append(timers, [r |-> r, p |-> "soil", ms |-> SleepPace])
  /\ soilInfo' = r /\ UNCHANGED <<weatherInfo, marketInfo, extremeWeatherAlert>>
  /\ Settle(r, [pipe[r] EXCEPT !["soil"] = "sleep1"], agentStatuses, FALSE)
  /\ pipeFrame

SoilFetched(r) ==
  Resume(r, "soil", "fetch", "sleep1", agentStatuses,
         soilInfo' = r /\ UNCHANGED <<weatherInfo, marketInfo, extremeWeatherAlert>>)

SoilFetchFailed(r) == Reject(r, "soil")

\* The mutation: the nutrients phase is not set to DONE before the next starts.
SoilNutrientsLeftWorking(r) ==
  Resume(r, "soil", "sleep1", "sleep2", agentStatuses, UNCHANGED pipeData)

SoilNutrientsDone(r) ==
  Resume(r, "soil", "sleep1", "sleep2",
         [agentStatuses EXCEPT !.soil.subAgents.nutrients = "done"],
         UNCHANGED pipeData)

SoilPhStart(r) ==
  Resume(r, "soil", "sleep2", "sleep3",
         [agentStatuses EXCEPT !.soil.subAgents.ph_moisture = "working"],
         UNCHANGED pipeData)

SoilPhDone(r) ==
  Resume(r, "soil", "sleep3", "sleep4",
         [agentStatuses EXCEPT !.soil.subAgents.ph_moisture = "done"],
         UNCHANGED pipeData)

SoilTypeStart(r) ==
  Resume(r, "soil", "sleep4", "sleep5",
         [agentStatuses EXCEPT !.soil.subAgents.type = "working"],
         UNCHANGED pipeData)

SoilDone(r) ==
  Resume(r, "soil", "sleep5", "data",
         [agentStatuses EXCEPT !.soil.subAgents.type = "done", !.soil.main = "done"],
         UNCHANGED pipeData)

\* ---- marketPromise
MarketStart(r) ==
  Resume(r, "market", "sleep0", "fetch",
         [agentStatuses EXCEPT !.market.subAgents.prices = "working"],
         UNCHANGED pipeData)

MarketFetched(r) ==
  Resume(r, "market", "fetch", "sleep1", agentStatuses,
         marketInfo' = r /\ UNCHANGED <<weatherInfo, soilInfo, extremeWeatherAlert>>)

MarketFetchFailed(r) == Reject(r, "market")

MarketPricesDone(r) ==
  Resume(r, "market", "sleep1", "sleep2",
         [agentStatuses EXCEPT !.market.subAgents.prices = "done"],
         UNCHANGED pipeData)

MarketExportStart(r) ==
  Resume(r, "market", "sleep2", "sleep3",
         [agentStatuses EXCEPT !.market.subAgents.export = "working"],
         UNCHANGED pipeData)

MarketDone(r) ==
  Resume(r, "market", "sleep3", "data",
         [agentStatuses EXCEPT !.market.subAgents.export = "done", !.market.main = "done"],
         UNCHANGED pipeData)

\* ---- getFinalAdvice settles
synthFrame ==
  UNCHANGED <<location, weatherInfo, soilInfo, marketInfo, extremeWeatherAlert,
              abortControllerRef, aborted, pipe, timers, origin, callSess, held, nInv,
              playbackStatuses, playVars, sessRest, nMsg, frames>>

\* The mutation: a successful return that leaves isLoading as it is.
SynthResolvedKeepsLoading(r) ==
  /\ hpc[r] = "synth"
  /\ IF signalAborted(r)
       THEN /\ Finish(r, "undef")
            /\ UNCHANGED <<finalAdvice, agentStatuses, error, isLoading>>
       ELSE /\ finalAdvice' = r
            /\ agentStatuses' = [agentStatuses EXCEPT !.planner = "done"]
            /\ Finish(r, "advice")
            /\ UNCHANGED <<error, isLoading>>
  /\ synthFrame

SynthResolved(r) ==
  /\ hpc[r] = "synth"
  /\ IF signalAborted(r)
       THEN /\ Finish(r, "undef")
            /\ UNCHANGED <<finalAdvice, agentStatuses, error, isLoading>>
       ELSE /\ finalAdvice' = r
            /\ agentStatuses' = [agentStatuses EXCEPT !.planner = "done"]
            /\ Finish(r, "advice")
            /\ isLoading' = FALSE
            /\ UNCHANGED error
  /\ synthFrame

SynthFailed(r) ==
  /\ hpc[r] = "synth"
  /\ CatchBlock(r, agentStatuses)
  /\ UNCHANGED finalAdvice
  /\ synthFrame

\* The mutation: handleGetAdvice without `abortControllerRef.current?.abort()`.
handleGetAdviceNoAbort(r, newLocation, from, s) ==
  /\ nInv < MaxReq
  /\ r = nInv + 1
  /\ nInv' = r
  /\ origin' = [origin EXCEPT ![r] = from]
  /\ callSess' = [callSess EXCEPT ![r] = s]
  /\ IF newLocation = ""
       THEN /\ hpc' = [hpc EXCEPT ![r] = "undef"]
            /\ UNCHANGED <<location, isLoading, weatherInfo, soilInfo, marketInfo,
                           finalAdvice, error, extremeWeatherAlert, agentStatuses,
                           abortControllerRef, aborted, pipe, timers, playbackStatuses>>
       ELSE /\ UNCHANGED aborted
            /\ abortControllerRef' = r
            /\ location' = newLocation
            /\ isLoading' = TRUE
            /\ resetData
            /\ agentStatuses' = [initialAgentStatuses EXCEPT !.weather.main = "working",
                                                             !.soil.main = "working",
                                                             !.market.main = "working"]
            /\ pipe' = [pipe EXCEPT ![r] = [p \in Pipelines |-> "sleep0"]]
            /\ timers' = timers \o <<[r |-> r, p |-> "weather", ms |-> SleepStart],
                                      [r |-> r, p |-> "soil", ms |-> SleepSoil],
                                      [r |-> r, p |-> "market", ms |-> SleepMarket]>>
            /\ hpc' = [hpc EXCEPT ![r] = "all"]
  /\ UNCHANGED <<toolResp, playVars, sessRest>>

\* ---- handleGetAdvice, up to its `await Promise.all`
handleGetAdvice(r, newLocation, from, s) ==
  /\ nInv < MaxReq
  /\ r = nInv + 1
  /\ nInv' = r
  /\ origin' = [origin EXCEPT ![r] = from]
  /\ callSess' = [callSess EXCEPT ![r] = s]
  /\ IF newLocation = ""
       THEN /\ hpc' = [hpc EXCEPT ![r] = "undef"]
            /\ UNCHANGED <<location, isLoading, weatherInfo, soilInfo, marketInfo,
                           finalAdvice, error, extremeWeatherAlert, agentStatuses,
                           abortControllerRef, aborted, pipe, timers, playbackStatuses>>
       ELSE /\ aborted' = [q \in Reqs |-> aborted[q] \/ q = abortControllerRef]
            /\ abortControllerRef' = r
            /\ location' = newLocation
            /\ isLoading' = TRUE
            /\ resetData
            /\ agentStatuses' = [initialAgentStatuses EXCEPT !.weather.main = "working",
                                                             !.soil.main = "working",
                                                             !.market.main = "working"]
            /\ pipe' = [pipe EXCEPT ![r] = [p \in Pipelines |-> "sleep0"]]
            /\ timers' = timers \o <<[r |-> r, p |-> "weather", ms |-> SleepStart],
                                      [r |-> r, p |-> "soil", ms |-> SleepSoil],
                                      [r |-> r, p |-> "market", ms |-> SleepMarket]>>
            /\ hpc' = [hpc EXCEPT ![r] = "all"]
  /\ UNCHANGED <<toolResp, playVars, sessRest>>

\* LocationInput: the user types a location and submits it; the text field and
\* the submit button are disabled while isLoading, the button also while the
\* field is empty.
SubmitForm(r, l) ==
  /\ ~isLoading
  /\ l # ""
  /\ handleGetAdvice(r, l, "form", Null)
  /\ UNCHANGED <<conversation, isAssistantSpeaking, held, sources, schedVars>>

\* onmessage for a message that carries a getFarmingAdvice tool call, and with
\* it a transcription of side `who` or an audio chunk of duration dur: the
\* speaking flag for the audio, the "analyzing" entry, then
\* handleGetAdvice(location), which returns undefined at once for an empty
\* location; everything else waits for it.
OnMessageToolCall(s, r, loc, hasAudio, who, dur) ==
  /\ sess[s] \in {"open", "closing"}
  /\ LET content == hasAudio \/ who # "none"
         m == [who |-> who, hasAudio |-> hasAudio, dur |-> IF hasAudio THEN dur ELSE 0,
               msg |-> IF content THEN nMsg + 1 ELSE 0]
         conv == Append(conversation, [speaker |-> "assistant", text |-> <<Analyzing>>])
         speaking == hasAudio \/ isAssistantSpeaking
     IN /\ content => nMsg < MaxMsg
        /\ UNCHANGED frames
        /\ nMsg' = IF content THEN nMsg + 1 ELSE nMsg
        /\ held' = [held EXCEPT ![r] = m]
        /\ handleGetAdvice(r, loc, "tool", s)
        /\ IF loc = ""
             THEN AfterToolCall(s, conv, m, speaking)
             ELSE /\ conversation' = conv
                  /\ isAssistantSpeaking' = speaking
                  /\ UNCHANGED <<sources, currentTime, nextStartTime, scheduled>>

\* The cancel button is rendered only while isLoading.
handleCancel ==
  /\ isLoading
  /\ aborted' = [q \in Reqs |-> aborted[q] \/ q = abortControllerRef]
  /\ isLoading' = FALSE
  /\ resetState
  /\ UNCHANGED <<location, abortControllerRef, pipe, timers, hpc, origin, callSess,
                 toolResp, held, nInv, playVars, conversation, voiceVars>>

PipelineStep(r) ==
  \/ WeatherStart(r) \/ WeatherFetched(r) \/ WeatherFetchFailed(r)
  \/ WeatherAlerts(r) \/ WeatherDone(r)
  \/ SoilStart(r) \/ SoilFetched(r) \/ SoilFetchFailed(r) \/ SoilNutrientsDone(r)
  \/ SoilPhStart(r) \/ SoilPhDone(r) \/ SoilTypeStart(r) \/ SoilDone(r)
  \/ MarketStart(r) \/ MarketFetched(r) \/ MarketFetchFailed(r) \/ MarketPricesDone(r)
  \/ MarketExportStart(r) \/ MarketDone(r)

NextAdvice ==
  \/ \E r \in Reqs, l \in Locations : SubmitForm(r, l)
  \/ \E s \in Sessions, r \in Reqs, loc \in Locations :
       OnMessageToolCall(s, r, loc, FALSE, "none", 0)
  \/ handleCancel
  \/ \E r \in Reqs : PipelineStep(r)
  \/ \E r \in Reqs : SynthResolved(r)
  \/ \E r \in Reqs : SynthFailed(r)

\* The advice engine with one voice session open (reached by startRecording,
\* the microphone grant and the transport's open: see SessionOpenReached).
InitLive ==
  /\ location = ""
  /\ isLoading = FALSE
  /\ weatherInfo = Null /\ soilInfo = Null /\ marketInfo = Null
  /\ finalAdvice = Null /\ error = Null /\ extremeWeatherAlert = Null
  /\ agentStatuses = initialAgentStatuses
  /\ abortControllerRef = Null
  /\ aborted = [r \in Reqs |-> FALSE]
  /\ pipe = [r \in Reqs |-> [p \in Pipelines |-> "idle"]]
  /\ timers = <<>>
  /\ hpc = [r \in Reqs |-> "idle"]
  /\ origin = [r \in Reqs |-> "none"]
  /\ callSess = [r \in Reqs |-> Null]
  /\ toolResp = [r \in Reqs |-> <<>>]
  /\ held = [r \in Reqs |-> NoContent]
  /\ nInv = 0
  /\ playbackStatuses = initialPlaybackStatuses
  /\ activePlaybackSourceRef = Null
  /\ ppc = [c \in Plays |-> "idle"]
  /\ pagent = [c \in Plays |-> "none"]
  /\ src = [c \in Plays |-> "none"]
  /\ onended = [c \in Plays |-> FALSE]
  /\ replaced = [c \in Plays |-> Null]
  /\ nPlay = 0
  /\ isRecording = TRUE
  /\ isAssistantSpeaking = FALSE
  /\ conversation = <<>>
  /\ sessionPromiseRef = 1
  /\ scriptProcessorRef = 1
  /\ sess = [s \in Sessions |-> IF s = 1 THEN "open" ELSE "none"]
  /\ stream = [s \in Sessions |-> IF s = 1 THEN "live" ELSE "none"]
  /\ capture = [s \in Sessions |-> IF s = 1 THEN "connected" ELSE "none"]
  /\ sources = [s \in Sessions |-> 0]
  /\ stopAwait = [s \in Sessions |-> 0]
  /\ nSess = 1
  /\ mounted = TRUE
  /\ currentTime = 0
  /\ nextStartTime = [s \in Sessions |-> 0]
  /\ scheduled = [s \in Sessions |-> <<>>]
  /\ nMsg = 0
  /\ frames = [s \in Sessions |-> 0]

SpecAdvice == InitLive /\ [][NextAdvice]_vars

\* One advice request, from the form or from a tool call, followed to its end
\* with the cancel button at hand.
NextRequest ==
  \/ \E l \in Locations : SubmitForm(1, l)
  \/ \E loc \in Locations : OnMessageToolCall(1, 1, loc, FALSE, "none", 0)
  \/ handleCancel
  \/ \E r \in Reqs : PipelineStep(r)
  \/ \E r \in Reqs : SynthResolved(r)
  \/ \E r \in Reqs : SynthFailed(r)

\* Every timer of sleep(ms) elapses and every external call settles.
SpecRequestFair ==
  /\ InitLive /\ [][NextRequest]_vars
  /\ \A r \in Reqs :
       /\ WF_vars(PipelineStep(r))
       /\ WF_vars(SynthResolved(r) \/ SynthFailed(r))

\* ==================================================== narration playback
adviceFrame == UNCHANGED <<adviceVars, conversation, voiceVars>>

\* AgentCard renders the audio button only when status is DONE and onPlayAudio
\* is defined (the card's data is stored); it is the play button unless the
\* card's playbackStatus is playing (stop button) or buffering (spinner).
CardData(a) ==
  CASE a = "weather" -> weatherInfo
    [] a = "soil" -> soilInfo
    [] a = "market" -> marketInfo
    [] a = "planner" -> finalAdvice

CardStatus(a) == IF a = "planner" THEN agentStatuses.planner ELSE agentStatuses[a].main

PlayButton(a) ==
  /\ CardStatus(a) = "done"
  /\ CardData(a) # Null
  /\ playbackStatuses[a] \notin {"playing", "buffering"}

\* if (activePlaybackSourceRef.current) { onended = null; stop(); ref = null }
StopActive ==
  /\ src' = IF activePlaybackSourceRef # Null
              THEN [src EXCEPT ![activePlaybackSourceRef] = "stopped"] ELSE src
  /\ onended' = IF activePlaybackSourceRef # Null
                  THEN [onended EXCEPT ![activePlaybackSourceRef] = FALSE] ELSE onended
  /\ activePlaybackSourceRef' = Null

\* handlePlayAudio up to its first await: `await resume()` when the playback
\* context is suspended, else `await getTextToSpeechAudio(...)`.
handlePlayAudio(c, a, suspended) ==
  /\ nPlay < MaxPlay
  /\ c = nPlay + 1
  /\ PlayButton(a)
  /\ nPlay' = c
  /\ pagent' = [pagent EXCEPT ![c] = a]
  /\ replaced' = [replaced EXCEPT ![c] = activePlaybackSourceRef]
  /\ StopActive
  /\ IF suspended
       THEN /\ ppc' = [ppc EXCEPT ![c] = "resume"]
            /\ UNCHANGED playbackStatuses
       ELSE /\ ppc' = [ppc EXCEPT ![c] = "tts"]
            /\ playbackStatuses' = [initialPlaybackStatuses EXCEPT ![a] = "buffering"]
  /\ adviceFrame

PlayResumed(c) ==
  /\ ppc[c] = "resume"
  /\ ppc' = [ppc EXCEPT ![c] = "tts"]
  /\ playbackStatuses' = [initialPlaybackStatuses EXCEPT ![pagent[c]] = "buffering"]
  /\ UNCHANGED <<activePlaybackSourceRef, pagent, src, onended, replaced, nPlay>>
  /\ adviceFrame

\* catch (e) of handlePlayAudio
PlayCatch(c) ==
  /\ ppc' = [ppc EXCEPT ![c] = "failed"]
  /\ playbackStatuses' = [playbackStatuses EXCEPT ![pagent[c]] = "error"]
  /\ activePlaybackSourceRef' = Null
  /\ UNCHANGED <<pagent, src, onended, replaced, nPlay>>

\* getTextToSpeechAudio resolves; decodeAudioData has no await of its own, so
\* decoding, attaching and starting the source run in the same macrotask.
TTSResolved(c) ==
  /\ ppc[c] = "tts"
  /\ activePlaybackSourceRef' = c
  /\ playbackStatuses' = [playbackStatuses EXCEPT ![pagent[c]] = "playing"]
  /\ src' = [src EXCEPT ![c] = "playing"]
  /\ onended' = [onended EXCEPT ![c] = TRUE]
  /\ ppc' = [ppc EXCEPT ![c] = "started"]
  /\ UNCHANGED <<pagent, replaced, nPlay>>
  /\ adviceFrame

\* getTextToSpeechAudio rejects (request failed, or no audio in the response),
\* or the bytes it returned do not decode: the catch block runs.
TTSFailed(c) ==
  /\ ppc[c] = "tts"
  /\ PlayCatch(c)
  /\ adviceFrame

\* The mutation: an onended handler without its
\* `if (activePlaybackSourceRef.current === source)`.
SourceEndedUnguarded(c) ==
  /\ src[c] \in {"playing", "stopped"}
  /\ src' = [src EXCEPT ![c] = "ended"]
  /\ IF onended[c]
       THEN /\ playbackStatuses' = [playbackStatuses EXCEPT ![pagent[c]] = "idle"]
            /\ activePlaybackSourceRef' = Null
       ELSE UNCHANGED <<playbackStatuses, activePlaybackSourceRef>>
  /\ UNCHANGED <<ppc, pagent, onended, replaced, nPlay>>
  /\ adviceFrame

\* The ended event of a source: it is dispatched when the source reaches the
\* end of its buffer or after stop(); the onended handler runs if still attached.
SourceEnded(c) ==
  /\ src[c] \in {"playing", "stopped"}
  /\ src' = [src EXCEPT ![c] = "ended"]
  /\ IF onended[c] /\ activePlaybackSourceRef = c
       THEN /\ playbackStatuses' = [playbackStatuses EXCEPT ![pagent[c]] = "idle"]
            /\ activePlaybackSourceRef' = Null
       ELSE UNCHANGED <<playbackStatuses, activePlaybackSourceRef>>
  /\ UNCHANGED <<ppc, pagent, onended, replaced, nPlay>>
  /\ adviceFrame

handleStopAudio ==
  /\ StopActive
  /\ playbackStatuses' = initialPlaybackStatuses
  /\ UNCHANGED <<ppc, pagent, replaced, nPlay>>
  /\ adviceFrame

NextPlayback ==
  \/ \E c \in Plays, a \in AgentType, suspended \in BOOLEAN : handlePlayAudio(c, a, suspended)
  \/ \E c \in Plays : PlayResumed(c)
  \/ \E c \in Plays : TTSResolved(c)
  \/ \E c \in Plays : TTSFailed(c)
  \/ \E c \in Plays : SourceEnded(c)
  \/ handleStopAudio

\* Playback starts from the state a successful form request leaves: SubmitForm,
\* every closure step, SynthResolved.
InitPlayback ==
  /\ location = "Napa Valley"
  /\ isLoading = FALSE
  /\ weatherInfo = 1 /\ soilInfo = 1 /\ marketInfo = 1
  /\ finalAdvice = 1 /\ error = Null /\ extremeWeatherAlert = 1
  /\ agentStatuses = AllStatus("done")
  /\ abortControllerRef = 1
  /\ aborted = [r \in Reqs |-> FALSE]
  /\ pipe = [r \in Reqs |-> [p \in Pipelines |-> IF r = 1 THEN "data" ELSE "idle"]]
  /\ timers = <<>>
  /\ hpc = [r \in Reqs |-> IF r = 1 THEN "advice" ELSE "idle"]
  /\ origin = [r \in Reqs |-> IF r = 1 THEN "form" ELSE "none"]
  /\ callSess = [r \in Reqs |-> Null]
  /\ toolResp = [r \in Reqs |-> <<>>]
  /\ held = [r \in Reqs |-> NoContent]
  /\ nInv = 1
  /\ playbackStatuses = initialPlaybackStatuses
  /\ activePlaybackSourceRef = Null
  /\ ppc = [c \in Plays |-> "idle"]
  /\ pagent = [c \in Plays |-> "none"]
  /\ src = [c \in Plays |-> "none"]
  /\ onended = [c \in Plays |-> FALSE]
  /\ replaced = [c \in Plays |-> Null]
  /\ nPlay = 0
  /\ isRecording = FALSE
  /\ isAssistantSpeaking = FALSE
  /\ conversation = <<>>
  /\ sessionPromiseRef = Null
  /\ scriptProcessorRef = Null
  /\ sess = [s \in Sessions |-> "none"]
  /\ stream = [s \in Sessions |-> "none"]
  /\ capture = [s \in Sessions |-> "none"]
  /\ sources = [s \in Sessions |-> 0]
  /\ stopAwait = [s \in Sessions |-> 0]
  /\ nSess = 0
  /\ mounted = TRUE
  /\ currentTime = 0
  /\ nextStartTime = [s \in Sessions |-> 0]
  /\ scheduled = [s \in Sessions |-> <<>>]
  /\ nMsg = 0
  /\ frames = [s \in Sessions |-> 0]

SpecPlayback == InitPlayback /\ [][NextPlayback]_vars

\* The platform's part: resume() and the narration request settle, and a
\* source that was started or stopped gets its ended event.
SpecPlaybackFair ==
  /\ SpecPlayback
  /\ \A c \in Plays :
       /\ WF_vars(PlayResumed(c))
       /\ WF_vars(TTSResolved(c) \/ TTSFailed(c))
       /\ WF_vars(SourceEnded(c))


\* ====================================================== live voice session
voiceFrame == UNCHANGED <<adviceVars, playbackStatuses, playVars>>

\* The microphone button runs startRecording when isRecording is false.
startRecording(s) ==
  /\ mounted /\ ~isRecording
  /\ nSess < MaxSess
  /\ s = nSess + 1
  /\ nSess' = s
  /\ isRecording' = TRUE
  /\ conversation' = <<>>
  /\ sess' = [sess EXCEPT ![s] = "acquiring"]
  /\ UNCHANGED <<isAssistantSpeaking, sessionPromiseRef, scriptProcessorRef, stream,
                 capture, sources, stopAwait, mounted>>
  /\ UNCHANGED schedVars
  /\ voiceFrame

\* getUserMedia resolves: ai.live.connect is called and the promise it returns
\* is stored in sessionPromiseRef.
MicGranted(s) ==
  /\ sess[s] = "acquiring"
  /\ sess' = [sess EXCEPT ![s] = "connecting"]
  /\ stream' = [stream EXCEPT ![s] = "live"]
  /\ sessionPromiseRef' = s
  /\ UNCHANGED <<isRecording, isAssistantSpeaking, conversation, scriptProcessorRef,
                 capture, sources, stopAwait, nSess, mounted>>
  /\ UNCHANGED schedVars
  /\ voiceFrame

\* getUserMedia rejects: the catch block of startRecording.
MicDenied(s) ==
  /\ sess[s] = "acquiring"
  /\ sess' = [sess EXCEPT ![s] = "denied"]
  /\ isRecording' = FALSE
  /\ UNCHANGED <<isAssistantSpeaking, conversation, sessionPromiseRef, scriptProcessorRef,
                 stream, capture, sources, stopAwait, nSess, mounted>>
  /\ UNCHANGED schedVars
  /\ voiceFrame

\* The transport opens: onopen wires the capture nodes, the session promise
\* fulfils, and every stopRecording suspended on it continues in the same
\* macrotask (session.close(), then the finally block and the two setters).
ConnectOpened(s, closeThrows) ==
  /\ sess[s] = "connecting"
  /\ capture' = [capture EXCEPT ![s] = "connected"]
  /\ scriptProcessorRef' = s
  /\ IF stopAwait[s] > 0
       THEN /\ sess' = [sess EXCEPT ![s] = IF closeThrows THEN "open" ELSE "closing"]
            /\ sessionPromiseRef' = Null
            /\ isRecording' = FALSE
            /\ isAssistantSpeaking' = FALSE
            /\ stopAwait' = [stopAwait EXCEPT ![s] = 0]
       ELSE /\ sess' = [sess EXCEPT ![s] = "open"]
            /\ UNCHANGED <<sessionPromiseRef, isRecording, isAssistantSpeaking, stopAwait>>
  /\ UNCHANGED <<conversation, stream, sources, nSess, mounted>>
  /\ UNCHANGED schedVars
  /\ voiceFrame

\* The session promise rejects: every stopRecording suspended on it continues
\* in its catch block.
ConnectFailed(s) ==
  /\ sess[s] = "connecting"
  /\ sess' = [sess EXCEPT ![s] = "failed"]
  /\ IF stopAwait[s] > 0
       THEN /\ sessionPromiseRef' = Null
            /\ isRecording' = FALSE
            /\ isAssistantSpeaking' = FALSE
            /\ stopAwait' = [stopAwait EXCEPT ![s] = 0]
       ELSE UNCHANGED <<sessionPromiseRef, isRecording, isAssistantSpeaking, stopAwait>>
  /\ UNCHANGED <<conversation, scriptProcessorRef, stream, capture, sources, nSess, mounted>>
  /\ UNCHANGED schedVars
  /\ voiceFrame

\* The mutation: stopRecording without `finally { sessionPromiseRef.current = null }`.
stopRecordingKeepsHandle(closeThrows) ==
  IF sessionPromiseRef = Null
    THEN /\ isRecording' = FALSE
         /\ isAssistantSpeaking' = FALSE
         /\ UNCHANGED <<sessionPromiseRef, sess, stopAwait>>
    ELSE IF sess[sessionPromiseRef] = "connecting"
      THEN /\ stopAwait[sessionPromiseRef] < MaxStop
           /\ stopAwait' = [stopAwait EXCEPT ![sessionPromiseRef] = @ + 1]
           /\ UNCHANGED <<sessionPromiseRef, sess, isRecording, isAssistantSpeaking>>
      ELSE /\ sess' = IF sess[sessionPromiseRef] = "open" /\ ~closeThrows
                        THEN [sess EXCEPT ![sessionPromiseRef] = "closing"] ELSE sess
           /\ isRecording' = FALSE
           /\ isAssistantSpeaking' = FALSE
           /\ UNCHANGED <<sessionPromiseRef, stopAwait>>

\* The body of stopRecording. With a pending session promise it suspends at the
\* await; with a settled one the await is a microtask hop, so close(), the
\* catch and finally blocks and the setters run in the caller's macrotask.
stopRecordingBody(closeThrows) ==
  IF sessionPromiseRef = Null
    THEN /\ isRecording' = FALSE
         /\ isAssistantSpeaking' = FALSE
         /\ UNCHANGED <<sessionPromiseRef, sess, stopAwait>>
    ELSE IF sess[sessionPromiseRef] = "connecting"
      THEN /\ stopAwait[sessionPromiseRef] < MaxStop
           /\ stopAwait' = [stopAwait EXCEPT ![sessionPromiseRef] = @ + 1]
           /\ UNCHANGED <<sessionPromiseRef, sess, isRecording, isAssistantSpeaking>>
      ELSE /\ sess' = IF sess[sessionPromiseRef] = "open" /\ ~closeThrows
                        THEN [sess EXCEPT ![sessionPromiseRef] = "closing"] ELSE sess
           /\ sessionPromiseRef' = Null
           /\ isRecording' = FALSE
           /\ isAssistantSpeaking' = FALSE
           /\ UNCHANGED stopAwait

\* The microphone button runs stopRecording when isRecording is true.
stopRecording(closeThrows) ==
  /\ mounted /\ isRecording
  /\ stopRecordingBody(closeThrows)
  /\ UNCHANGED <<conversation, scriptProcessorRef, stream, capture, sources, nSess, mounted>>
  /\ UNCHANGED schedVars
  /\ voiceFrame

\* The effect cleanup: unmounting the component calls stopRecording.
Unmount(closeThrows) ==
  /\ mounted
  /\ mounted' = FALSE
  /\ stopRecordingBody(closeThrows)
  /\ UNCHANGED <<conversation, scriptProcessorRef, stream, capture, sources, nSess>>
  /\ UNCHANGED schedVars
  /\ voiceFrame

\* The clear button is enabled while the conversation is not empty.
handleClearConversation(closeThrows) ==
  /\ mounted /\ conversation # <<>>
  /\ conversation' = <<>>
  /\ IF isRecording
       THEN stopRecordingBody(closeThrows)
       ELSE UNCHANGED <<sessionPromiseRef, sess, stopAwait, isRecording, isAssistantSpeaking>>
  /\ UNCHANGED <<scriptProcessorRef, stream, capture, sources, nSess, mounted>>
  /\ UNCHANGED schedVars
  /\ voiceFrame

\* onclose: the transport closed, after close() or from the remote end.
OnClose(s) ==
  /\ sess[s] \in {"open", "closing"}
  /\ sess' = [sess EXCEPT ![s] = "closed"]
  /\ stream' = [stream EXCEPT ![s] = "stopped"]
  /\ capture' = IF scriptProcessorRef # Null
                  THEN [capture EXCEPT ![scriptProcessorRef] = "disconnected"] ELSE capture
  /\ UNCHANGED <<isRecording, isAssistantSpeaking, conversation, sessionPromiseRef,
                 scriptProcessorRef, sources, stopAwait, nSess, mounted>>
  /\ UNCHANGED schedVars
  /\ voiceFrame

\* onerror: console.error only.
OnError(s) ==
  /\ sess[s] \in {"connecting", "open", "closing"}
  /\ UNCHANGED vars

\* onmessage for a server message without a tool call: hasAudio is whether it
\* carries model audio (of duration dur), who the side a transcription in it
\* belongs to. decodeAudioData has no await of its own, so no other handler
\* runs between the Math.max and source.start; the playback clock, kept by the
\* audio device, may advance by `late` meanwhile.
OnMessage(s, hasAudio, who, dur, late) ==
  /\ sess[s] \in {"open", "closing"}
  /\ who # "none" => Chunks(conversation) < MaxTranscript
  /\ hasAudio \/ who # "none" => nMsg < MaxMsg
  /\ UNCHANGED frames
  /\ nMsg' = IF hasAudio \/ who # "none" THEN nMsg + 1 ELSE nMsg
  /\ conversation' = Transcribed(conversation, who, nMsg + 1)
  /\ IF hasAudio
       THEN /\ sources[s] < MaxSources
            /\ Len(scheduled[s]) < MaxChunks
            /\ currentTime + late <= MaxTime
            /\ isAssistantSpeaking' = TRUE
            /\ nextStartTime' =
                 [nextStartTime EXCEPT ![s] = StartAt(nextStartTime[s], currentTime) + dur]
            /\ scheduled' =
                 [scheduled EXCEPT ![s] =
                    Append(@, [at |-> currentTime, late |-> late, msg |-> nMsg + 1,
                               start |-> StartAt(nextStartTime[s], currentTime),
                               duration |-> dur])]
            /\ currentTime' = currentTime + late
            /\ sources' = [sources EXCEPT ![s] = @ + 1]
       ELSE /\ isAssistantSpeaking' = IF sources[s] = 0 THEN FALSE ELSE isAssistantSpeaking
            /\ UNCHANGED <<sources, currentTime, nextStartTime, scheduled>>
  /\ UNCHANGED <<isRecording, sessionPromiseRef, scriptProcessorRef, sess, stream,
                 capture, stopAwait, nSess, mounted>>
  /\ voiceFrame

\* onaudioprocess of session s's script processor, which fires for as long as
\* the processor is connected: sessionPromise.then(session =>
\* session.sendRealtimeInput(...)) on the session of the same closure.
OnAudioProcess(s) ==
  /\ capture[s] = "connected"
  /\ frames[s] < MaxFrames
  /\ frames' = [frames EXCEPT ![s] = @ + 1]
  /\ UNCHANGED <<adviceVars, playbackStatuses, playVars, conversation, isAssistantSpeaking,
                 sessRest, sources, currentTime, nextStartTime, scheduled, nMsg>>

\* The playback clock of the output AudioContext advances to time at.
ClockAdvance(at) ==
  /\ currentTime < at
  /\ currentTime' = at
  /\ UNCHANGED <<adviceVars, playbackStatuses, playVars, conversation, isAssistantSpeaking,
                 isRecording, sessionPromiseRef, scriptProcessorRef, sess, stream, capture,
                 sources, stopAwait, nSess, mounted, nextStartTime, scheduled, nMsg,
                 frames>>

\* The ended listener of a scheduled audio source of session s.
AudioEnded(s) ==
  /\ sources[s] > 0
  /\ sources' = [sources EXCEPT ![s] = @ - 1]
  /\ isAssistantSpeaking' = IF sources[s] = 1 THEN FALSE ELSE isAssistantSpeaking
  /\ UNCHANGED <<isRecording, conversation, sessionPromiseRef, scriptProcessorRef, sess,
                 stream, capture, stopAwait, nSess, mounted>>
  /\ UNCHANGED schedVars
  /\ voiceFrame

NextVoice ==
  \/ \E s \in Sessions : startRecording(s)
  \/ \E s \in Sessions : MicGranted(s)
  \/ \E s \in Sessions : MicDenied(s)
  \/ \E s \in Sessions, closeThrows \in BOOLEAN : ConnectOpened(s, closeThrows)
  \/ \E s \in Sessions : ConnectFailed(s)
  \/ \E closeThrows \in BOOLEAN : stopRecording(closeThrows)
  \/ \E closeThrows \in BOOLEAN : Unmount(closeThrows)
  \/ \E closeThrows \in BOOLEAN : handleClearConversation(closeThrows)
  \/ \E s \in Sessions : OnClose(s)
  \/ \E s \in Sessions : OnError(s)
  \/ \E s \in Sessions, hasAudio \in BOOLEAN, who \in {"none", "assistant", "user"} :
       OnMessage(s, hasAudio, who, 10, 0)
  \/ \E s \in Sessions : AudioEnded(s)

\* SpecVoice holds the playback clock still and gives every chunk one duration:
\* only the scheduling lines of onmessage read either.
SpecVoice == Init /\ [][NextVoice]_vars

\* What the platform does without being asked: a pending getUserMedia or
\* connect settles, a requested close is acknowledged, a started source ends.
SpecVoiceFair ==
  /\ SpecVoice
  /\ \A s \in Sessions :
       /\ WF_vars(MicGranted(s) \/ MicDenied(s))
       /\ WF_vars((\E closeThrows \in BOOLEAN : ConnectOpened(s, closeThrows)) \/ ConnectFailed(s))
       /\ WF_vars(sess[s] = "closing" /\ OnClose(s))
       /\ WF_vars(AudioEnded(s))

\* The audio scheduler of one open session: chunks of any duration arriving at
\* any clock time.
NextScheduler ==
  \/ \E hasAudio \in BOOLEAN, dur \in Durations, late \in 0..MaxLate :
       OnMessage(1, hasAudio, "none", dur, late)
  \/ \E at \in ArrivalTimes : ClockAdvance(at)
  \/ \E s \in Sessions : AudioEnded(s)

SpecScheduler == InitLive /\ [][NextScheduler]_vars

\* The live session's messages while advice requests started by tool calls are
\* in flight: a message may carry a transcription or an audio chunk next to its
\* tool call, and other messages arrive while that call is awaited. One tool
\* call is followed to its end.
NextLive ==
  \/ \E loc \in Locations, hasAudio \in BOOLEAN, who \in {"none", "assistant", "user"} :
       OnMessageToolCall(1, 1, loc, hasAudio, who, 10)
  \/ \E hasAudio \in BOOLEAN, who \in {"none", "assistant", "user"} :
       OnMessage(1, hasAudio, who, 10, 0)
  \/ \E r \in Reqs : PipelineStep(r)
  \/ \E r \in Reqs : SynthResolved(r)
  \/ \E r \in Reqs : SynthFailed(r)
  \/ AudioEnded(1)

SpecLive == InitLive /\ [][NextLive]_vars

\* What a session sends while it is being stopped: captured audio frames, and
\* the response to a tool call whose advice request is in flight.
NextSend ==
  \/ \E loc \in Locations : OnMessageToolCall(1, 1, loc, FALSE, "none", 0)
  \/ \E r \in Reqs : PipelineStep(r)
  \/ \E r \in Reqs : SynthResolved(r)
  \/ \E r \in Reqs : SynthFailed(r)
  \/ \E closeThrows \in BOOLEAN : stopRecording(closeThrows)
  \/ OnClose(1)
  \/ OnAudioProcess(1)

SpecSend == InitLive /\ [][NextSend]_vars

\* ------------------------------------------------- checkExtremeWeather
\* The fields of a WeatherDay that checkExtremeWeather reads, at and just above
\* its two thresholds.
Temps == {38, 39}

Precips == {80, 81}

WeatherDays == [high_temp_celsius : Temps, precipitation_probability : Precips]

Forecasts == UNION {[1..n -> WeatherDays] : n \in 0..MaxDays}

Severe(d) == d.high_temp_celsius > 38 \/ d.precipitation_probability > 80

RECURSIVE find(_)
\* data.find(...): the position of the first severe day, 0 when there is none.
find(data) ==
  IF data = <<>> THEN 0
  ELSE IF Severe(Head(data)) THEN 1
  ELSE LET k == find(Tail(data)) IN IF k = 0 THEN 0 ELSE k + 1

\* The mutation: the precipitation test placed before the temperature test.
checkExtremeWeatherRainFirst(data) ==
  LET i == find(data) IN
  IF i # 0 /\ data[i].precipitation_probability > 80
    THEN [type |-> "Heavy Rain", day |-> i, value |-> data[i].precipitation_probability]
  ELSE IF i # 0 /\ data[i].high_temp_celsius > 38
    THEN [type |-> "Heatwave", day |-> i, value |-> data[i].high_temp_celsius]
  ELSE [type |-> "None", day |-> 0, value |-> 0]

\* The alert: its type, and the day and the reading its message is filled with.
checkExtremeWeather(data) ==
  LET i == find(data) IN
  IF i # 0 /\ data[i].high_temp_celsius > 38
    THEN [type |-> "Heatwave", day |-> i, value |-> data[i].high_temp_celsius]
  ELSE IF i # 0 /\ data[i].precipitation_probability > 80
    THEN [type |-> "Heavy Rain", day |-> i, value |-> data[i].precipitation_probability]
  ELSE [type |-> "None", day |-> 0, value |-> 0]

\* useState<ExtremeWeatherAlert | null>(null), in the shape of an alert.
NullAlert == [type |-> "null", day |-> 0, value |-> 0]

\* The forecast getWeatherData returned, stored by setWeatherInfo.
InitAlert ==
  /\ location = ""
  /\ isLoading = FALSE
  /\ weatherInfo \in Forecasts
  /\ soilInfo = Null /\ marketInfo = Null
  /\ finalAdvice = Null /\ error = Null /\ extremeWeatherAlert = NullAlert
  /\ agentStatuses = initialAgentStatuses
  /\ abortControllerRef = Null
  /\ aborted = [r \in Reqs |-> FALSE]
  /\ pipe = [r \in Reqs |-> [p \in Pipelines |-> "idle"]]
  /\ timers = <<>>
  /\ hpc = [r \in Reqs |-> "idle"]
  /\ origin = [r \in Reqs |-> "none"]
  /\ callSess = [r \in Reqs |-> Null]
  /\ toolResp = [r \in Reqs |-> <<>>]
  /\ held = [r \in Reqs |-> NoContent]
  /\ nInv = 0
  /\ playbackStatuses = initialPlaybackStatuses
  /\ activePlaybackSourceRef = Null
  /\ ppc = [c \in Plays |-> "idle"]
  /\ pagent = [c \in Plays |-> "none"]
  /\ src = [c \in Plays |-> "none"]
  /\ onended = [c \in Plays |-> FALSE]
  /\ replaced = [c \in Plays |-> Null]
  /\ nPlay = 0
  /\ isRecording = FALSE
  /\ isAssistantSpeaking = FALSE
  /\ conversation = <<>>
  /\ sessionPromiseRef = Null
  /\ scriptProcessorRef = Null
  /\ sess = [s \in Sessions |-> "none"]
  /\ stream = [s \in Sessions |-> "none"]
  /\ capture = [s \in Sessions |-> "none"]
  /\ sources = [s \in Sessions |-> 0]
  /\ stopAwait = [s \in Sessions |-> 0]
  /\ nSess = 0
  /\ mounted = TRUE
  /\ currentTime = 0
  /\ nextStartTime = [s \in Sessions |-> 0]
  /\ scheduled = [s \in Sessions |-> <<>>]
  /\ nMsg = 0
  /\ frames = [s \in Sessions |-> 0]

\* const alert = checkExtremeWeather(result.data); setExtremeWeatherAlert(alert)
AlertsChecked ==
  /\ extremeWeatherAlert = NullAlert
  /\ extremeWeatherAlert' = checkExtremeWeather(weatherInfo)
  /\ UNCHANGED <<location, isLoading, weatherInfo, soilInfo, marketInfo, finalAdvice, error,
                 agentStatuses, abortControllerRef, aborted, pipe, timers, hpc, origin,
                 callSess, toolResp, held, nInv, playbackStatuses, playVars, conversation,
                 voiceVars>>

SpecAlert == InitAlert /\ [][AlertsChecked]_vars

\* One narration and a new advice request: resetState, called by
\* handleGetAdvice and handleCancel, also resets the playback statuses.
NextReset ==
  \/ \E a \in AgentType : handlePlayAudio(1, a, FALSE) /\ UNCHANGED <<adviceVars, conversation, voiceVars>>
  \/ TTSResolved(1)
  \/ TTSFailed(1)
  \/ SourceEnded(1)
  \/ handleStopAudio
  \/ \E r \in Reqs, l \in Locations : SubmitForm(r, l)
  \/ handleCancel
  \/ \E r \in Reqs : PipelineStep(r)
  \/ \E r \in Reqs : SynthResolved(r)
  \/ \E r \in Reqs : SynthFailed(r)

SpecReset == InitPlayback /\ [][NextReset]_vars

\* ============================================================== claims
\* What the presentation layer observes of an advice request.
Observed ==
  <<agentStatuses, weatherInfo, soilInfo, marketInfo, extremeWeatherAlert,
    finalAdvice, error, isLoading>>

AdviceData == {weatherInfo, soilInfo, marketInfo, extremeWeatherAlert, finalAdvice, error}

Terminal == {"data", "null", "rejected"}

\* A closure of request r, or handleGetAdvice(r) itself, takes a step.
Continues(r) == pipe'[r] # pipe[r] \/ hpc'[r] # hpc[r]

\* C1: once request B has been issued (abortControllerRef holds B), no
\* continuation of an earlier request A (a closure resuming from a sleep or from
\* its external call, that call failing, getFinalAdvice settling) changes the
\* observed state, and the stored data is B's or null.
C1_SupersededIsSilent ==
  /\ [][\A r \in Reqs : (r < abortControllerRef /\ Continues(r)) => UNCHANGED Observed]_vars
  /\ [](AdviceData \subseteq {Null, abortControllerRef})

\* Request 1 failed un-aborted (isLoading false from then on, so no cancel),
\* request 2 superseded it, and then request 1's soil closure resumed and
\* request 1's market call failed.
C1_Witness ==
  /\ abortControllerRef = 2 /\ ~aborted[2]
  /\ hpc[1] = "threw"
  /\ pipe[1]["weather"] = "rejected"
  /\ pipe[1]["soil"] = "null"
  /\ pipe[1]["market"] = "rejected"
  /\ pipe[2]["weather"] = "sleep1"

AllCleared ==
  /\ agentStatuses = initialAgentStatuses
  /\ AdviceData = {Null}
  /\ ~isLoading

\* C2: from handleCancel until the next handleGetAdvice (abortControllerRef still
\* holds the cancelled request's controller), every status is idle, the data,
\* alert, advice and error are null and isLoading is false.
C2_CancelledStaysReset ==
  (abortControllerRef # Null /\ aborted[abortControllerRef]) => AllCleared

\* Cancelled with weather fully done and soil mid-flight; soil's call has since
\* resolved and its closure returned null.
C2_Witness ==
  /\ abortControllerRef = 1 /\ aborted[1]
  /\ pipe[1]["weather"] = "data"
  /\ pipe[1]["soil"] = "null"
  /\ soilInfo = Null

\* C3: after a pipeline's external call failed in the live, un-cancelled
\* request, all three pipelines and the planner are (and stay) error.
C3_FailureIsFinal ==
  \A r \in Reqs :
    (r = abortControllerRef /\ ~aborted[r] /\ hpc[r] = "threw"
       /\ \E p \in Pipelines : pipe[r][p] = "rejected")
      => agentStatuses = errorAgentStatuses

\* C4: when the handling of a getFarmingAdvice tool call has ended, exactly one
\* sendToolResponse has been sent for it.
C4_OneToolResponse ==
  \A r \in Reqs :
    (origin[r] = "tool" /\ hpc[r] \in {"undef", "advice", "threw"})
      => Len(toolResp[r]) = 1

PhasesOf(p) == {agentStatuses[p].subAgents[k] : k \in DOMAIN agentStatuses[p].subAgents}

\* C5: a pipeline's main is done iff each of its phases is done, and is error
\* whenever one of its phases is error.
C5_MainDerived ==
  \A p \in Pipelines :
    /\ (agentStatuses[p].main = "done") <=> (PhasesOf(p) = {"done"})
    /\ ("error" \in PhasesOf(p)) => (agentStatuses[p].main = "error")

\* C6: in every reachable state at most one of the four playback slots is
\* playing and at most one audio source is playing on the playback device.
C6_AtMostOnePlaying ==
  /\ Cardinality({a \in AgentType : playbackStatuses[a] = "playing"}) <= 1
  /\ Cardinality({c \in Plays : src[c] = "playing"}) <= 1

\* C7: a play call that finds another slot's source attached stops that source
\* with its handler detached; when the new audio starts, no later play call
\* having been made, the new slot is the only one playing and every other slot
\* is idle; the ended event of a stopped source changes no playback status.
C7_SwitchLeavesOnePlaying ==
  [][/\ \A c \in Plays, a \in AgentType, suspended \in BOOLEAN :
          (handlePlayAudio(c, a, suspended) /\ activePlaybackSourceRef # Null)
            => (src'[activePlaybackSourceRef] = "stopped" /\ ~onended'[activePlaybackSourceRef])
     /\ \A c \in Plays :
          (TTSResolved(c) /\ replaced[c] # Null /\ c = nPlay)
            => /\ playbackStatuses' = [initialPlaybackStatuses EXCEPT ![pagent[c]] = "playing"]
               /\ src'[replaced[c]] # "playing"
     /\ \A c \in Plays :
          (SourceEnded(c) /\ src[c] = "stopped") => UNCHANGED playbackStatuses]_vars

\* C8: every handleStopAudio call ends with all four slots idle, the source
\* handle cleared and no source playing on the playback output.
C8_StopYieldsAllIdle ==
  [][handleStopAudio =>
       /\ playbackStatuses' = initialPlaybackStatuses
       /\ activePlaybackSourceRef' = Null
       /\ \A c \in Plays : src'[c] # "playing"]_vars

\* C9: at most one voice session with a live capture stream is connecting or
\* open at any time.
LiveSessions == {s \in Sessions : sess[s] \in {"connecting", "open"} /\ stream[s] = "live"}

C9_OneLiveSession == Cardinality(LiveSessions) <= 1

\* C10: every stopRecording call, from the microphone button, the clear button
\* or the unmount cleanup, either suspends on a pending session promise or ends
\* with the session handle cleared and both flags false, whether or not close()
\* throws; a suspended call ends the same way when the promise settles; and a
\* call made in that stopped state changes nothing.
StoppedState == sessionPromiseRef = Null /\ ~isRecording /\ ~isAssistantSpeaking

StopCalled ==
  \E closeThrows \in BOOLEAN :
    \/ stopRecording(closeThrows)
    \/ Unmount(closeThrows)
    \/ (isRecording /\ handleClearConversation(closeThrows))

StopResumed == \E s \in Sessions : stopAwait[s] > 0 /\ stopAwait'[s] = 0

C10_StopIdempotent ==
  [][/\ StopCalled => (StoppedState' \/ stopAwait' # stopAwait)
     /\ StopResumed => StoppedState'
     /\ (StopCalled /\ StoppedState) =>
          UNCHANGED <<adviceVars, playbackStatuses, playVars, conversation,
                      isAssistantSpeaking, isRecording, sessionPromiseRef, scriptProcessorRef,
                      sess, stream, capture, sources, stopAwait, nSess, schedVars>>]_vars

\* Reached only by a stop whose close() threw, followed by the cleanup's call.
C10_Witness == ~mounted /\ StoppedState /\ nSess = 1 /\ sess[1] = "open" /\ sources[1] > 0

\* C11: every scheduled chunk starts at max(nextStartTime, clock time at
\* scheduling) and nextStartTime becomes that start plus the chunk's duration,
\* so nextStartTime never decreases; chunks of 1.0, 0.5 and 2.0 s arriving at
\* clock times 0, 0.1 and 3.0 s start at 0, 1.0 and 3.0 s.
Field(seq, f) == [i \in DOMAIN seq |-> seq[i][f]]

C11_SchedulerStartTimes ==
  /\ [][\A s \in Sessions :
          /\ nextStartTime'[s] >= nextStartTime[s]
          /\ Len(scheduled'[s]) > Len(scheduled[s]) =>
               /\ scheduled'[s][Len(scheduled'[s])].start =
                    (IF nextStartTime[s] > currentTime THEN nextStartTime[s] ELSE currentTime)
               /\ nextStartTime'[s] =
                    scheduled'[s][Len(scheduled'[s])].start
                      + scheduled'[s][Len(scheduled'[s])].duration]_vars
  /\ [](\A s \in Sessions :
          (Field(scheduled[s], "duration") = <<10, 5, 20>>
             /\ Field(scheduled[s], "at") = <<0, 1, 30>>)
            => Field(scheduled[s], "start") = <<0, 10, 30>>)

C11_Witness ==
  /\ Field(scheduled[1], "duration") = <<10, 5, 20>>
  /\ Field(scheduled[1], "at") = <<0, 1, 30>>
  /\ Field(scheduled[1], "start") = <<0, 10, 30>>
  /\ nextStartTime[1] = 50

C13_SpeakingIffSources == isAssistantSpeaking <=> (\E s \in Sessions : sources[s] > 0)

\* C14: at most one abort token is un-cancelled, and it is the one held in
\* abortControllerRef; a new request cancels the token it replaces in the step
\* that creates its own, before any of its status writes.
Tokens == {r \in Reqs : hpc[r] \notin {"idle", "undef"}}

C14_OneLiveScope ==
  /\ [](\A r \in Tokens : ~aborted[r] => r = abortControllerRef)
  /\ [](Cardinality({r \in Tokens : ~aborted[r]}) <= 1)
  /\ [][(abortControllerRef' # abortControllerRef /\ abortControllerRef # Null)
          => aborted'[abortControllerRef]]_vars

\* A tool call superseded a form request that was still loading.
C14_Witness ==
  /\ abortControllerRef = 2 /\ origin[2] = "tool" /\ ~aborted[2]
  /\ origin[1] = "form" /\ aborted[1] /\ hpc[1] = "all"
  /\ agentStatuses.soil.subAgents.nutrients = "working"

\* C15: the planner status becomes working, and the synthesis call is made,
\* only in a step of the live, un-cancelled request that leaves all three of
\* its pipelines finished with main = done; the planner becomes done, and
\* advice is stored, only in the step in which the synthesis call of the live,
\* un-cancelled request succeeds.
LiveRequest(r) == r = abortControllerRef /\ ~aborted[r]

C15_PlannerAfterPipelines ==
  [][/\ ((agentStatuses.planner # "working" /\ agentStatuses'.planner = "working")
           \/ \E r \in Reqs : hpc[r] # "synth" /\ hpc'[r] = "synth")
          => \E r \in Reqs :
               /\ LiveRequest(r) /\ hpc[r] = "all" /\ hpc'[r] = "synth"
               /\ agentStatuses'.planner = "working"
               /\ \A p \in Pipelines : pipe'[r][p] = "data" /\ agentStatuses'[p].main = "done"
     /\ ((agentStatuses.planner # "done" /\ agentStatuses'.planner = "done")
           \/ (finalAdvice' # finalAdvice /\ finalAdvice' # Null))
          => \E r \in Reqs :
               /\ LiveRequest(r) /\ hpc[r] = "synth" /\ hpc'[r] = "advice"
               /\ agentStatuses'.planner = "done" /\ finalAdvice' = r]_vars

C15_Witness ==
  /\ finalAdvice = 1 /\ hpc[1] = "advice" /\ agentStatuses = AllStatus("done")
  /\ abortControllerRef = 1 /\ isLoading = FALSE

\* C16: within one pipeline the phases run in declared order: a phase is set
\* to working only by the live request, after that request's closure has set
\* the preceding phase to done (which then reads done, or error where the catch
\* block has overwritten it) and while every later phase has not started; no
\* two phases of one pipeline are working at once.
PhaseOrder(p) ==
  CASE p = "weather" -> <<"forecast", "alerts">>
    [] p = "soil" -> <<"nutrients", "ph_moisture", "type">>
    [] p = "market" -> <<"prices", "export">>

\* The positions of a pipeline's closure at which its i-th phase has been set to done.
AfterDone(p, i) ==
  CASE p = "weather" -> {"sleep1", "sleep2", "data"}
    [] p = "market" -> {"sleep2", "sleep3", "data"}
    [] p = "soil" /\ i = 1 -> {"sleep2", "sleep3", "sleep4", "sleep5", "data"}
    [] p = "soil" /\ i = 2 -> {"sleep4", "sleep5", "data"}

SetWorking(p, k) ==
  agentStatuses[p].subAgents[k] # "working" /\ agentStatuses'[p].subAgents[k] = "working"

C16_PhasesInOrder ==
  /\ [][\A p \in Pipelines : \A i \in 2..Len(PhaseOrder(p)) :
          SetWorking(p, PhaseOrder(p)[i]) =>
            /\ agentStatuses[p].subAgents[PhaseOrder(p)[i - 1]] \in {"done", "error"}
            /\ \E r \in Reqs : LiveRequest(r) /\ pipe[r][p] \in AfterDone(p, i - 1)
            /\ \A j \in (i + 1)..Len(PhaseOrder(p)) :
                 agentStatuses[p].subAgents[PhaseOrder(p)[j]] \in {"idle", "error"}]_vars
  /\ [](\A p \in Pipelines :
          Cardinality({k \in DOMAIN agentStatuses[p].subAgents :
                         agentStatuses[p].subAgents[k] = "working"}) <= 1)

C16_Witness ==
  /\ agentStatuses.soil.subAgents =
       [nutrients |-> "done", ph_moisture |-> "done", type |-> "working"]
  /\ agentStatuses.weather.subAgents = [forecast |-> "done", alerts |-> "working"]
  /\ agentStatuses.market.subAgents = [prices |-> "done", export |-> "working"]

\* C17: every change of a phase status or of the planner status is idle to
\* working, working to done, working to error, or part of a reset of every
\* phase and the planner to idle.
PhaseSlots ==
  UNION {{<<p, k>> : k \in DOMAIN initialAgentStatuses[p].subAgents} : p \in Pipelines}

StatusSlots(st) ==
  [x \in PhaseSlots \cup {<<"planner">>} |->
     IF x = <<"planner">> THEN st.planner ELSE st[x[1]].subAgents[x[2]]]

LegalChanges == {<<"idle", "working">>, <<"working", "done">>, <<"working", "error">>}

C17_LegalTransitions ==
  [][\A x \in DOMAIN StatusSlots(agentStatuses) :
       LET old == StatusSlots(agentStatuses)[x]
           new == StatusSlots(agentStatuses')[x] IN
         old # new =>
           \/ <<old, new>> \in LegalChanges
           \/ \A y \in DOMAIN StatusSlots(agentStatuses') : StatusSlots(agentStatuses')[y] = "idle"]_vars

\* C18: a pipeline's main status is not working while all of its phases are
\* idle, and it is working while any of its phases is working.
C18_MainFollowsPhases ==
  \A p \in Pipelines :
    /\ agentStatuses[p].main = "working" => PhasesOf(p) # {"idle"}
    /\ "working" \in PhasesOf(p) => agentStatuses[p].main = "working"

\* C19: when the synthesis call of an un-cancelled request fails, the planner
\* status becomes error and no other status changes.
C19_SynthesisErrorPlannerOnly ==
  [][\A r \in Reqs :
       (hpc[r] = "synth" /\ hpc'[r] = "threw")
         => agentStatuses' = [agentStatuses EXCEPT !.planner = "error"]]_vars

\* C20: the promise handleGetAdvice returns to the location form's submit
\* handler never rejects.
C20_NothingEscapes == \A r \in Reqs : origin[r] = "form" => hpc[r] # "threw"

\* C21: when the transport of the current session closes on its own, without a
\* stopRecording call, isRecording and isAssistantSpeaking are reset to false
\* and the session handle is cleared.
C21_TransportCloseResets ==
  [][\A s \in Sessions :
       (sessionPromiseRef = s /\ sess[s] = "open" /\ sess'[s] = "closed")
         => (~isRecording' /\ ~isAssistantSpeaking' /\ sessionPromiseRef' = Null)]_vars

\* C22: once recording has been stopped, a microphone stream that is still
\* live is eventually released.
C22_StreamReleased ==
  \A s \in Sessions : (stream[s] = "live" /\ ~isRecording) ~> (stream[s] # "live")

\* C23: a transcription delta of a speaker is concatenated onto the last
\* transcript entry when that entry has the same speaker and is appended as a
\* new entry of that speaker otherwise; every other entry stays as it was and
\* none is removed.
C23_TranscriptReducer ==
  [][nMsg' = nMsg + 1 =>
       LET n == Len(conversation) IN
       \/ conversation' = conversation
       \/ \E who \in {"assistant", "user"} :
            IF n > 0 /\ conversation[n].speaker = who
              THEN /\ Len(conversation') = n
                   /\ \A i \in 1..(n - 1) : conversation'[i] = conversation[i]
                   /\ conversation'[n] =
                        [speaker |-> who, text |-> conversation[n].text \o <<nMsg'>>]
              ELSE /\ Len(conversation') = n + 1
                   /\ \A i \in 1..n : conversation'[i] = conversation[i]
                   /\ conversation'[n + 1] = [speaker |-> who, text |-> <<nMsg'>>]]_vars

C23_Witness ==
  /\ Len(conversation) = 1
  /\ conversation[1].speaker = "user"
  /\ Len(conversation[1].text) = 2

RECURSIVE Deltas(_, _)
\* The deltas of speaker who in the transcript, in reading order.
Deltas(conv, who) ==
  IF conv = <<>> THEN <<>>
  ELSE (IF Head(conv).speaker = who
          THEN SelectSeq(Head(conv).text, LAMBDA d : d # Analyzing) ELSE <<>>)
         \o Deltas(Tail(conv), who)

\* C24: for each direction the deltas stand in the transcript in the order in
\* which their messages arrived, also when an earlier message carries a tool
\* call that is still awaited while later messages arrive.
C24_DeltasInArrivalOrder ==
  \A who \in {"assistant", "user"} :
    LET d == Deltas(conversation, who) IN
    \A i, j \in DOMAIN d : i < j => d[i] < d[j]

\* C25: the audio sources of a session are started in the arrival order of
\* their messages: a chunk whose message arrived earlier does not start later.
C25_StartsInArrivalOrder ==
  \A s \in Sessions : \A i, j \in DOMAIN scheduled[s] :
    scheduled[s][i].msg < scheduled[s][j].msg
      => scheduled[s][i].start <= scheduled[s][j].start

\* C27: every tool response sent for a tool call carries the summary when the
\* request that call started has produced advice and the apology when that
\* request has thrown, and one is sent in both cases; the step in which the
\* request fails leaves the session, its handle and the recording flag alone.
C27_ToolResponsePayload ==
  /\ [](\A r \in Reqs : origin[r] = "tool" =>
          /\ \A i \in DOMAIN toolResp[r] :
               /\ toolResp[r][i] = "summary" => hpc[r] = "advice"
               /\ toolResp[r][i] = "apology" => hpc[r] = "threw"
          /\ hpc[r] = "advice" => toolResp[r] = <<"summary">>
          /\ hpc[r] = "threw" => toolResp[r] = <<"apology">>)
  /\ [][\A r \in Reqs :
          (origin[r] = "tool" /\ hpc[r] # "threw" /\ hpc'[r] = "threw")
            => UNCHANGED <<sess, sessionPromiseRef, isRecording, stream>>]_vars

C27_Witness ==
  \E r \in Reqs :
    /\ origin[r] = "tool" /\ hpc[r] = "threw"
    /\ toolResp[r] = <<"apology">>
    /\ sess[callSess[r]] = "open"

\* C26: when the first external call of a request that has not been aborted
\* fails, the same step records the error message and marks every agent and
\* phase error, whatever the other pipelines are still waiting for.
C26_FailsAtFirstFailure ==
  [][\A r \in Reqs, p \in Pipelines :
       (/\ pipe[r][p] = "fetch" /\ pipe'[r][p] = "rejected"
        /\ ~signalAborted(r)
        /\ \A q \in Pipelines : pipe[r][q] # "rejected")
         => (error' = r /\ agentStatuses' = errorAgentStatuses /\ hpc'[r] = "threw")]_vars

C26_Witness ==
  \E r \in Reqs :
    /\ hpc[r] = "threw" /\ error = r /\ ~signalAborted(r)
    /\ agentStatuses = errorAgentStatuses
    /\ pipe[r]["weather"] = "rejected"
    /\ pipe[r]["soil"] = "fetch"
    /\ pipe[r]["market"] \in {"sleep0", "sleep1"}

\* C28: when a source ends, its slot is set to idle and the attached handle is
\* cleared only if its handler is still attached and it is still the attached
\* source; the end of a source that a newer play replaced or that stop detached
\* changes no slot status and leaves the handle alone.
C28_OnendedOnlyForAttached ==
  [][\A c \in Plays :
       (src[c] # "ended" /\ src'[c] = "ended") =>
         IF onended[c] /\ activePlaybackSourceRef = c
           THEN /\ playbackStatuses' = [playbackStatuses EXCEPT ![pagent[c]] = "idle"]
                /\ activePlaybackSourceRef' = Null
           ELSE UNCHANGED <<playbackStatuses, activePlaybackSourceRef>>]_vars

C28_Witness ==
  \E c, d \in Plays :
    /\ c # d
    /\ src[c] = "ended" /\ onended[c]
    /\ activePlaybackSourceRef = d /\ src[d] = "playing"
    /\ playbackStatuses[pagent[d]] = "playing"

\* C29: when a play fails, its slot becomes error, the other three slots keep
\* their statuses, and a source that a newer play has attached meanwhile stays
\* attached.
C29_FailureTouchesOwnSlotOnly ==
  [][\A c \in Plays :
       (ppc[c] # "failed" /\ ppc'[c] = "failed") =>
         /\ playbackStatuses' = [playbackStatuses EXCEPT ![pagent[c]] = "error"]
         /\ activePlaybackSourceRef > c => activePlaybackSourceRef' = activePlaybackSourceRef]_vars

\* C30: the alert is decided by the first day of the forecast, in list order,
\* whose high is above 38 or whose precipitation probability is above 80:
\* Heatwave when that day's high is above 38, whatever its precipitation, Heavy
\* Rain otherwise, None when there is no such day; never Frost or High Winds.
C30_AlertFromFirstSevereDay ==
  extremeWeatherAlert # NullAlert =>
    LET f == weatherInfo
        S == {i \in DOMAIN f : f[i].high_temp_celsius > 38
                                 \/ f[i].precipitation_probability > 80}
    IN /\ extremeWeatherAlert.type \in {"Heatwave", "Heavy Rain", "None"}
       /\ IF S = {}
            THEN extremeWeatherAlert.type = "None"
            ELSE LET first == CHOOSE i \in S : \A k \in S : i <= k IN
                 /\ extremeWeatherAlert.day = first
                 /\ extremeWeatherAlert.type =
                      (IF f[first].high_temp_celsius > 38 THEN "Heatwave" ELSE "Heavy Rain")

C30_Witness ==
  /\ extremeWeatherAlert # NullAlert
  /\ Len(weatherInfo) = 3
  /\ ~Severe(weatherInfo[1])
  /\ weatherInfo[2].high_temp_celsius > 38 /\ weatherInfo[2].precipitation_probability > 80
  /\ weatherInfo[3].high_temp_celsius <= 38 /\ weatherInfo[3].precipitation_probability > 80
  /\ extremeWeatherAlert.type = "Heatwave"
  /\ extremeWeatherAlert.day = 2

\* C31: isLoading is true exactly while the request of the current controller
\* has been neither aborted nor returned; in particular the end of a superseded
\* request leaves isLoading true while its successor is running.
C31_LoadingIffLiveRequest ==
  isLoading <=> (/\ abortControllerRef # Null
                 /\ ~signalAborted(abortControllerRef)
                 /\ hpc[abortControllerRef] \in {"all", "synth"})

C31_Witness ==
  /\ nInv = 2 /\ abortControllerRef = 2
  /\ signalAborted(1) /\ hpc[1] = "undef"
  /\ \E p \in Pipelines : pipe[1][p] = "rejected"
  /\ hpc[2] = "all" /\ isLoading

\* C32: a pipeline whose main status is done has its data stored, finalAdvice
\* is stored only while the planner is done, and the step of a reset
\* (handleGetAdvice for a location, handleCancel) leaves all four null.
C32_DoneHasData ==
  /\ [](/\ agentStatuses.weather.main = "done" => weatherInfo # Null
        /\ agentStatuses.soil.main = "done" => soilInfo # Null
        /\ agentStatuses.market.main = "done" => marketInfo # Null
        /\ finalAdvice # Null => agentStatuses.planner = "done")
  /\ [][(abortControllerRef' # abortControllerRef \/ aborted' # aborted)
          => (weatherInfo' = Null /\ soilInfo' = Null /\ marketInfo' = Null
              /\ finalAdvice' = Null)]_vars

C32_Witness ==
  /\ nInv = 2 /\ hpc[1] = "advice"
  /\ hpc[2] = "all" /\ \A p \in Pipelines : pipe[2][p] = "sleep0"
  /\ weatherInfo = Null /\ soilInfo = Null /\ marketInfo = Null /\ finalAdvice = Null

\* C33: when every timer elapses and every external call settles, every
\* handleGetAdvice invocation that has started returns (with advice, with
\* nothing, or by throwing), and isLoading becomes false again.
C33_RequestsTerminate ==
  /\ \A r \in Reqs : (hpc[r] \in {"all", "synth"}) ~> (hpc[r] \in {"advice", "undef", "threw"})
  /\ isLoading ~> ~isLoading

C33_Witness ==
  /\ signalAborted(1) /\ hpc[1] = "undef"
  /\ \A p \in Pipelines : pipe[1][p] = "null"
  /\ nInv = 1 /\ ~isLoading

\* C34: the latest play is waiting for its narration, no other play is for its
\* slot, and every slot is idle, which only a handleStopAudio after the play
\* began buffering brings about; as long as no new play is issued, that play's
\* source is not started and its slot does not become playing.
C34_StoppedPlayStaysSilent ==
  [][\A c \in Plays :
       (/\ c = nPlay /\ nPlay' = nPlay
        /\ ppc[c] = "tts"
        /\ playbackStatuses = initialPlaybackStatuses
        /\ \A d \in Plays \ {c} : pagent[d] # pagent[c])
         => (src'[c] # "playing" /\ playbackStatuses'[pagent[c]] # "playing")]_vars

\* The status of the slot of play c.
SlotOf(c) == IF pagent[c] \in AgentType THEN playbackStatuses[pagent[c]] ELSE "idle"

\* C35: once a source has ended naturally (its handler still attached) and no
\* other source is playing for its slot, that slot does not stay playing
\* forever.
C35_PlayingSlotIsReleased ==
  \A c \in Plays :
    (/\ src[c] = "ended" /\ onended[c]
     /\ SlotOf(c) = "playing"
     /\ \A d \in Plays : pagent[d] = pagent[c] => src[d] # "playing")
      ~> (SlotOf(c) # "playing")

\* C36: a source is attached (activePlaybackSourceRef is not null) exactly when
\* exactly one slot is playing, also after a handleGetAdvice or handleCancel
\* that resets the playback statuses during a narration.
C36_AttachedIffOnePlaying ==
  (activePlaybackSourceRef # Null)
    <=> (Cardinality({a \in AgentType : playbackStatuses[a] = "playing"}) = 1)

\* C37: whenever a voice session exists (its microphone is being acquired, its
\* transport is connecting or open), isRecording is true.
C37_SessionImpliesRecording ==
  \A s \in Sessions : sess[s] \in {"acquiring", "connecting", "open"} => isRecording

\* C38: the onclose callback of a session releases only that session's own
\* capture nodes; the capture nodes of every other session are left as they
\* are, also when the other session was started before this onclose fired.
C38_CloseReleasesOwnCapture ==
  [][\A s \in Sessions :
       (sess[s] \in {"open", "closing"} /\ sess'[s] = "closed")
         => \A t \in Sessions \ {s} : capture'[t] = capture[t]]_vars

\* C39: once stopRecording has called close() on a session and until the close
\* is acknowledged, nothing is sent on that session: no sendRealtimeInput of a
\* captured frame and no sendToolResponse of a request that was in flight.
C39_NothingSentAfterClose ==
  [][/\ \A s \in Sessions : sess[s] = "closing" => frames'[s] = frames[s]
     /\ \A r \in Reqs :
          (callSess[r] \in Sessions /\ sess[callSess[r]] = "closing")
            => toolResp'[r] = toolResp[r]]_vars

====
